---- MODULE Spec2Model ----
(***************************************************************************)
(* Model of linux/runner/my_application.cc: the GApplication subclass that *)
(* hosts the Flutter view of Captioner.  The lifecycle callbacks           *)
(* (local_command_line, startup, activate, shutdown, dispose) and the      *)
(* first-frame signal handler are the actions; my_application_activate is  *)
(* split into the statements the properties distinguish.                   *)
(***************************************************************************)
EXTENDS Integers, Sequences, FiniteSets, TLC

\* ---------------------------------------------------------------- bounds
\* most command-line arguments after the program name
MaxArgs == 2
\* most calls of my_application_local_command_line on the one object
MaxCalls == 2
\* most emissions of "first-frame", over all views
MaxEmit == 2

\* ------------------------------------------------------------- constants
NULL == <<>>
UNSET == -1
ArgStrings == {"a", "b"}
ProgramName == "captioner"
\* what g_file_read_link("/proc/self/exe") can return: NULL or a path
ExePaths == {NULL, <<"build", "bundle", "captioner">>}
DefaultWidth == 1280
DefaultHeight == 720

RECURSIVE SeqsUpTo(_)
SeqsUpTo(n) ==
    IF n = 0 THEN {<<>>}
    ELSE LET S == SeqsUpTo(n - 1)
         IN  S \cup {Append(s, x) : s \in {t \in S : Len(t) = n - 1}, x \in ArgStrings}

\* every argv the process can be started with: the program name, then arguments
Argvs == {<<ProgramName>> \o s : s \in SeqsUpTo(MaxArgs)}

\* ------------------------------------------------------- pure functions
\* g_strdupv(v): a fresh vector holding a copy of every string of v, in order
g_strdupv(v) == [i \in 1..Len(v) |-> v[i]]

\* *arguments + 1: the vector starting at the second element
SkipFirst(arguments) == [i \in 1..(Len(arguments) - 1) |-> arguments[i + 1]]

StripProgramName_keep(arguments) == g_strdupv(arguments)
\* line 89: g_strdupv(*arguments + 1)
StripProgramName(arguments) == g_strdupv(SkipFirst(arguments))

\* g_path_get_dirname: the path without its last component
g_path_get_dirname(path) == SubSeq(path, 1, Len(path) - 1)

\* lines 35-36: g_build_filename(exe_dir, "data", "captioner.png")
BundledIconPath(exe_dir) == exe_dir \o <<"data", "captioner.png">>

\* lines 42-44: g_build_filename(exe_dir, "..", "..", "..", "linux", "runner",
\*                               "resources", "app_icon.png")
DevIconPath(exe_dir) ==
    exe_dir \o <<"..", "..", "..", "linux", "runner", "resources", "app_icon.png">>

ChooseIconPath_inverted(exe_dir, bundled_exists) ==
    IF bundled_exists THEN DevIconPath(exe_dir) ELSE BundledIconPath(exe_dir)
\* lines 37-46: the bundled path unless g_file_test says it does not exist
ChooseIconPath(exe_dir, bundled_exists) ==
    IF ~bundled_exists THEN DevIconPath(exe_dir) ELSE BundledIconPath(exe_dir)

ExitStatusFor_zero(registered) == 0
\* lines 92-99: *exit_status = 1 on the failure path, 0 after activation
ExitStatusFor(registered) == IF registered THEN 0 ELSE 1

AfterRegister_always(registered) == "activate"
\* lines 92-98: the failure path returns before g_application_activate
AfterRegister(registered) == IF registered THEN "activate" ELSE "register_failed"

AfterExePath_always(path) == "icon_test"
\* line 33: the icon block runs only if exe_path != nullptr
AfterExePath(path) == IF path # NULL THEN "icon_test" ELSE "project"

AfterIconLoad_fatal(loaded) == IF loaded THEN "project" ELSE "focus_done"
\* lines 50-59: both branches of the load fall through to the project setup
AfterIconLoad(loaded) == "project"

ViewSteps_realize_first ==
    <<"show_view", "realize", "add", "connect", "plugins", "grab_focus", "focus_done">>
\* lines 69-80: the statements on the view, in program order
ViewSteps ==
    <<"show_view", "add", "connect", "realize", "plugins", "grab_focus", "focus_done">>

\* the statement that follows statement s of lines 69-80
StepAfter(s) ==
    LET i == CHOOSE k \in 1..Len(ViewSteps) : ViewSteps[k] = s
    IN  ViewSteps[i + 1]

\* ----------------------------------------------------------------- state
VARIABLES
    argv,                       \* the process's command line
    dart_entrypoint_arguments,  \* self->dart_entrypoint_arguments: 0 (NULL) or a heap block
    heap,                       \* live string vectors: records [id, strv]
    pc,                         \* the statement the main thread is at ("idle": in no callback)
    ncalls,                     \* calls of local_command_line so far
    cur,                        \* the current (or last) call of local_command_line
    windows,                    \* the windows created by activate, oldest first
    exe_path,                   \* activate's local exe_path
    icon_path,                  \* activate's local icon_path
    is_registered,              \* GApplication's registered flag
    did_startup                 \* the parent class's startup handler has run

vars == <<argv, dart_entrypoint_arguments, heap, pc, ncalls, cur, windows,
          exe_path, icon_path, is_registered, did_startup>>

NewCall == [reg |-> "none", exit_status |-> UNSET, handled |-> FALSE,
            activations |-> 0, stored |-> FALSE]

\* the window as gtk_application_window_new leaves it, before any statement on it
NewWindow(call) ==
    [call |-> call, title |-> "", width |-> 0, height |-> 0,
     exe_resolved |-> "unread", tested |-> {}, loads |-> <<>>, bundled_exists |-> "untested", load_ok |-> "none",
     icon |-> NULL, warning |-> NULL,
     has_view |-> FALSE, entry_args |-> <<>>, background |-> "",
     view_visible |-> FALSE, added |-> FALSE, connected |-> FALSE,
     realized |-> FALSE, plugins |-> FALSE, focused |-> FALSE,
     window_shown |-> FALSE, emits |-> 0, show_calls |-> 0]

Last == Len(windows)

Init ==
    /\ argv \in Argvs
    /\ dart_entrypoint_arguments = 0
    /\ heap = {}
    /\ pc = "idle"
    /\ ncalls = 0
    /\ cur = NewCall
    /\ windows = <<>>
    /\ exe_path = NULL
    /\ icon_path = NULL
    /\ is_registered = FALSE
    /\ did_startup = FALSE

\* the vector a char** points at; NULL points at nothing
Deref(p) == IF p = 0 THEN <<>> ELSE (CHOOSE b \in heap : b.id = p).strv

SetLast(w) == [windows EXCEPT ![Last] = w]

\* --------------------------------------- my_application_local_command_line
\* lines 87-89: the stripped copy of argv is stored in the object; the field's
\* previous value is not looked at
LocalCommandLine ==
    /\ pc = "idle"
    /\ ncalls < MaxCalls
    /\ ncalls' = ncalls + 1
    /\ heap' = heap \cup {[id |-> ncalls + 1, strv |-> StripProgramName(argv)]}
    /\ dart_entrypoint_arguments' = ncalls + 1
    /\ cur' = [NewCall EXCEPT !.stored = TRUE]
    /\ pc' = "register"
    /\ UNCHANGED <<argv, windows, exe_path, icon_path, is_registered,
                   did_startup>>

\* line 92: g_application_register; an application that is already registered
\* registers again successfully, the first registration emits startup
Register ==
    /\ pc = "register"
    /\ \E ok \in (IF is_registered THEN {TRUE} ELSE BOOLEAN) :
          /\ cur' = [cur EXCEPT !.reg = IF ok THEN "ok" ELSE "failed"]
          /\ is_registered' = (is_registered \/ ok)
          /\ pc' = IF ok /\ ~did_startup THEN "startup" ELSE AfterRegister(ok)
    /\ UNCHANGED <<argv, dart_entrypoint_arguments, heap, ncalls, windows,
                   exe_path, icon_path, did_startup>>

\* lines 105-111: my_application_startup only chains up to the parent class
Startup ==
    /\ pc = "startup"
    /\ did_startup' = TRUE
    /\ pc' = AfterRegister(TRUE)
    /\ UNCHANGED <<argv, dart_entrypoint_arguments, heap, ncalls, cur, windows,
                   exe_path, icon_path, is_registered>>

\* lines 93-95: warning, *exit_status = 1, return TRUE
RegisterFailed ==
    /\ pc = "register_failed"
    /\ cur' = [cur EXCEPT !.exit_status = ExitStatusFor(FALSE), !.handled = TRUE]
    /\ pc' = "idle"
    /\ UNCHANGED <<argv, dart_entrypoint_arguments, heap, ncalls, windows,
                   exe_path, icon_path, is_registered, did_startup>>

\* lines 99-101: after g_application_activate has returned: *exit_status = 0,
\* return TRUE
ActivateReturn ==
    /\ pc = "focus_done"
    /\ cur' = [cur EXCEPT !.exit_status = ExitStatusFor(TRUE), !.handled = TRUE]
    /\ pc' = "idle"
    /\ UNCHANGED <<argv, dart_entrypoint_arguments, heap, ncalls, windows,
                   exe_path, icon_path, is_registered, did_startup>>

\* ------------------------------------------------- my_application_activate
\* line 98 and lines 20-29: g_application_activate runs the activate handler,
\* which creates the window and sets its title and default size
Activate ==
    /\ pc = "activate"
    /\ cur' = [cur EXCEPT !.activations = @ + 1]
    /\ windows' = Append(windows, [NewWindow(ncalls) EXCEPT
                                      !.title = "Captioner",
                                      !.width = DefaultWidth,
                                      !.height = DefaultHeight])
    /\ pc' = "exe_path"
    /\ UNCHANGED <<argv, dart_entrypoint_arguments, heap, ncalls, exe_path,
                   icon_path, is_registered, did_startup>>

\* lines 32-33: g_file_read_link("/proc/self/exe") gives a path or NULL
ReadExePath ==
    /\ pc = "exe_path"
    /\ \E p \in ExePaths :
          /\ exe_path' = p
          /\ windows' = SetLast([windows[Last] EXCEPT
                                    !.exe_resolved = IF p # NULL THEN "yes" ELSE "no"])
          /\ pc' = AfterExePath(p)
    /\ UNCHANGED <<argv, dart_entrypoint_arguments, heap, ncalls, cur,
                   icon_path, is_registered, did_startup>>

\* lines 34-46: the bundled path is tested for existence and the path to load
\* is chosen; the development path is built, never tested
IconTest ==
    /\ pc = "icon_test"
    /\ \E exists \in BOOLEAN :
          LET exe_dir == g_path_get_dirname(exe_path)
              w == windows[Last]
          IN  /\ windows' = SetLast([w EXCEPT
                                !.tested = @ \cup {BundledIconPath(exe_dir)},
                                !.bundled_exists = IF exists THEN "yes" ELSE "no"])
              /\ icon_path' = ChooseIconPath(exe_dir, exists)
    /\ pc' = "icon_load"
    /\ UNCHANGED <<argv, dart_entrypoint_arguments, heap, ncalls, cur, exe_path,
                   is_registered, did_startup>>

\* lines 48-56: gdk_pixbuf_new_from_file(icon_path); the icon is set on the
\* window if it loaded, a warning naming icon_path is logged if it did not
IconLoad ==
    /\ pc = "icon_load"
    /\ \E loaded \in BOOLEAN :
          LET w == windows[Last]
          IN  /\ windows' = SetLast([w EXCEPT
                                !.loads = Append(@, icon_path),
                                !.load_ok = IF loaded THEN "yes" ELSE "no",
                                !.icon = IF loaded THEN icon_path ELSE @,
                                !.warning = IF loaded THEN @ ELSE icon_path])
              /\ pc' = AfterIconLoad(loaded)
    /\ UNCHANGED <<argv, dart_entrypoint_arguments, heap, ncalls, cur, exe_path,
                   icon_path, is_registered, did_startup>>

\* lines 59-68: the project gets the object's argument vector, the view is
\* created from the project and given its background colour
Project ==
    /\ pc = "project"
    /\ windows' = SetLast([windows[Last] EXCEPT
                              !.has_view = TRUE,
                              !.entry_args = g_strdupv(Deref(dart_entrypoint_arguments)),
                              !.background = "#000000"])
    /\ pc' = ViewSteps[1]
    /\ UNCHANGED <<argv, dart_entrypoint_arguments, heap, ncalls, cur, exe_path,
                   icon_path, is_registered, did_startup>>

ShowView_window(w) == [w EXCEPT !.window_shown = TRUE]
\* line 69: gtk_widget_show(GTK_WIDGET(view)) shows the view, not the window
ShowView(w) == [w EXCEPT !.view_visible = TRUE]

ViewStatement(s, w) ==
    /\ pc = s
    /\ windows' = SetLast(w)
    /\ pc' = StepAfter(s)
    /\ UNCHANGED <<argv, dart_entrypoint_arguments, heap, ncalls, cur, exe_path,
                   icon_path, is_registered, did_startup>>

\* line 69
WidgetShowView == ViewStatement("show_view", ShowView(windows[Last]))

\* line 70: gtk_container_add(window, view)
ContainerAdd == ViewStatement("add", [windows[Last] EXCEPT !.added = TRUE])

\* lines 74-75: g_signal_connect_swapped(view, "first-frame", first_frame_cb, self)
SignalConnect == ViewStatement("connect", [windows[Last] EXCEPT !.connected = TRUE])

\* line 76: gtk_widget_realize(view)
Realize == ViewStatement("realize", [windows[Last] EXCEPT !.realized = TRUE])

\* line 78: fl_register_plugins(view)
RegisterPlugins == ViewStatement("plugins", [windows[Last] EXCEPT !.plugins = TRUE])

\* lines 80-81: gtk_widget_grab_focus(view); the locals go out of scope
GrabFocus ==
    /\ pc = "grab_focus"
    /\ windows' = SetLast([windows[Last] EXCEPT !.focused = TRUE])
    /\ exe_path' = NULL
    /\ icon_path' = NULL
    /\ pc' = StepAfter("grab_focus")
    /\ UNCHANGED <<argv, dart_entrypoint_arguments, heap, ncalls, cur,
                   is_registered, did_startup>>

\* ---------------------------------------------------------- first_frame_cb
first_frame_cb_oneshot(w) ==
    IF w.added
    THEN [w EXCEPT !.window_shown = TRUE, !.show_calls = @ + 1, !.connected = FALSE]
    ELSE [w EXCEPT !.view_visible = TRUE, !.connected = FALSE]
\* lines 15-17: gtk_widget_show on the view's toplevel, which is the window
\* once the view has been added to it and the view itself before; the handler
\* stays connected
first_frame_cb(w) ==
    IF w.added
    THEN [w EXCEPT !.window_shown = TRUE, !.show_calls = @ + 1]
    ELSE [w EXCEPT !.view_visible = TRUE]

RECURSIVE EmitsUpTo(_)
\* emissions of "first-frame" so far on the first n views
EmitsUpTo(n) == IF n = 0 THEN 0 ELSE EmitsUpTo(n - 1) + windows[n].emits

\* the engine emits "first-frame" on a realized view while the main loop runs;
\* the emission runs every handler connected at that moment
EmitFirstFrame ==
    /\ pc = "idle"
    /\ \E i \in 1..Len(windows) :
          LET w == windows[i]
          IN  /\ w.realized
              /\ EmitsUpTo(Len(windows)) < MaxEmit
              /\ windows' = [windows EXCEPT ![i] =
                                [(IF w.connected THEN first_frame_cb(w) ELSE w)
                                    EXCEPT !.emits = @ + 1]]
    /\ UNCHANGED <<argv, dart_entrypoint_arguments, heap, pc, ncalls, cur, exe_path,
                   icon_path, is_registered, did_startup>>

\* ------------------------------------------------- shutdown and dispose
\* lines 114-120: my_application_shutdown only chains up to the parent class;
\* nothing of this object changes
Shutdown ==
    /\ pc = "idle"
    /\ is_registered
    /\ UNCHANGED vars

\* lines 123-127: g_clear_pointer frees the vector the field points at, if any,
\* and sets the field to NULL; dispose may run more than once
Dispose ==
    /\ pc = "idle"
    /\ heap' = {b \in heap : b.id # dart_entrypoint_arguments}
    /\ dart_entrypoint_arguments' = 0
    /\ UNCHANGED <<argv, pc, ncalls, cur, windows, exe_path, icon_path,
                   is_registered, did_startup>>

Next ==
    \/ LocalCommandLine
    \/ Register
    \/ Startup
    \/ RegisterFailed
    \/ Activate
    \/ ReadExePath
    \/ IconTest
    \/ IconLoad
    \/ Project
    \/ WidgetShowView
    \/ ContainerAdd
    \/ SignalConnect
    \/ Realize
    \/ RegisterPlugins
    \/ GrabFocus
    \/ ActivateReturn
    \/ EmitFirstFrame
    \/ Shutdown
    \/ Dispose

Spec == Init /\ [][Next]_vars

TypeOK ==
    /\ argv \in Argvs
    /\ dart_entrypoint_arguments \in 0..MaxCalls
    /\ ncalls \in 0..MaxCalls
    /\ cur.exit_status \in {UNSET, 0, 1}
    /\ Len(windows) <= ncalls

\* ------------------------------------------------------------ properties
Windows == {windows[i] : i \in 1..Len(windows)}

\* the activation that created window i has returned
Finished(i) == i < Len(windows) \/ pc \in {"focus_done", "idle"}

FinishedWindows == {windows[i] : i \in {k \in 1..Len(windows) : Finished(k)}}

\* the two icon paths for the executable build/bundle/captioner
ExpectedBundledPath == <<"build", "bundle", "data", "captioner.png">>
ExpectedDevPath ==
    <<"build", "bundle", "..", "..", "..", "linux", "runner", "resources", "app_icon.png">>

\* C1: the entrypoint arguments every view's project was given are argv without
\* its first element: the same strings in the same order, and the empty list
\* for an argv that holds only the program name.
C1_ArgsForwardedVerbatim ==
    \A w \in Windows :
        w.has_view =>
            /\ Len(w.entry_args) = Len(argv) - 1
            /\ \A k \in 1..Len(w.entry_args) : w.entry_args[k] = argv[k + 1]

C1_Witness ==
    \E w \in Windows :
        /\ w.has_view
        /\ Len(argv) = 3
        /\ argv[2] # argv[3]
        /\ w.entry_args = <<argv[2], argv[3]>>

\* C2: a call of local_command_line that has returned reported the command
\* line as handled with the exit status set: 1 exactly when registration
\* failed, 0 exactly when registration succeeded and activation was requested;
\* and outside a call, every call made has returned that way.
C2_ExitStatus ==
    /\ cur.handled =>
          /\ cur.exit_status \in {0, 1}
          /\ cur.exit_status = 1 <=> cur.reg = "failed"
          /\ cur.exit_status = 0 <=> (cur.reg = "ok" /\ cur.activations > 0)
    /\ (pc = "idle" /\ ncalls > 0) => cur.handled

C2_Witness ==
    /\ pc = "idle"
    /\ cur.handled
    /\ cur.reg = "failed"
    /\ cur.exit_status = 1

\* C3: with the executable's directory known, the path given to the icon loader
\* is the bundled path whenever the existence test found a file there, and the
\* development-tree path only when the test found none; one activation passes
\* exactly one path to the loader.
C3_IconPathChoice ==
    /\ \A w \in Windows :
          /\ Len(w.loads) <= 1
          /\ w.loads # <<>> =>
                /\ w.exe_resolved = "yes"
                /\ w.loads[1] \in {ExpectedBundledPath, ExpectedDevPath}
                /\ w.bundled_exists = "yes" => w.loads[1] = ExpectedBundledPath
                /\ w.loads[1] = ExpectedDevPath => w.bundled_exists = "no"
    /\ \A w \in FinishedWindows : w.exe_resolved = "yes" => Len(w.loads) = 1

C3_Witness ==
    \E w \in FinishedWindows :
        /\ w.exe_resolved = "yes"
        /\ w.bundled_exists = "no"
        /\ w.loads = <<ExpectedDevPath>>

\* C4: an icon that fails to load leaves a warning and no icon on the window,
\* and every activation that has returned, whether or not its icon loaded, has
\* created the view with the forwarded arguments, added it to the window,
\* connected the first-frame handler, realized the view and registered plugins.
C4_IconFailureNonFatal ==
    /\ \A w \in Windows :
          w.load_ok = "no" => (w.warning = w.loads[1] /\ w.icon = NULL)
    /\ \A w \in FinishedWindows :
          /\ w.has_view
          /\ w.entry_args = Tail(argv)
          /\ w.added
          /\ w.connected
          /\ w.realized
          /\ w.plugins

C4_Witness ==
    \E w \in FinishedWindows :
        /\ w.load_ok = "no"
        /\ w.warning # NULL
        /\ w.icon = NULL
        /\ w.plugins

\* C5: a window is shown exactly when the first-frame signal has been emitted
\* on its view: never before the first emission (activation shows the view
\* only), and from the first emission on.
C5_ShownOnlyAfterFirstFrame ==
    \A w \in Windows : w.window_shown <=> w.emits > 0

C5_Witness ==
    \E w1, w2 \in Windows :
        /\ w1.realized /\ w1.view_visible /\ w1.emits = 0 /\ ~w1.window_shown
        /\ w2.emits > 0 /\ w2.window_shown

\* C6 as stated: the handler runs at most once for each view.
C6_OneShot ==
    \A w \in Windows : w.show_calls <= 1

\* C6 amended: the handler stays connected, so every emission of first-frame
\* on a view runs it and shows the window again; the window stays shown.
C6_RunsOnEveryEmission ==
    \A w \in Windows :
        /\ w.show_calls = w.emits
        /\ w.realized => w.connected
        /\ w.show_calls > 0 => w.window_shown

C6_Witness ==
    \E w \in Windows : w.emits = 2 /\ w.show_calls = 2 /\ w.window_shown

\* C7: the argument list is set once, by command-line handling only: the field
\* changes to a list only in local_command_line and only from NULL the first
\* time, no step leaves a stored list unreferenced without freeing it, and
\* dispose leaves the field NULL.
C7_SetOnceClearedAtDispose ==
    [][/\ (dart_entrypoint_arguments' # dart_entrypoint_arguments
             /\ dart_entrypoint_arguments' # 0) =>
                (LocalCommandLine /\ dart_entrypoint_arguments = 0 /\ ncalls = 0)
       /\ (dart_entrypoint_arguments' # dart_entrypoint_arguments
             /\ dart_entrypoint_arguments' = 0) => Dispose
       /\ \A b \in heap' : b.id = dart_entrypoint_arguments'
       /\ Dispose => dart_entrypoint_arguments' = 0]_vars

\* C8: a call whose registration failed requests no activation: it creates no
\* window, view or plugin registration, though the argument list is already
\* stored when the failure is handled; a call whose registration succeeded
\* has requested activation exactly once when it returns, and a window belongs
\* to a call only after that call's registration succeeded.
C8_ActivationOnlyAfterRegistration ==
    LET mine == {i \in 1..Len(windows) : windows[i].call = ncalls}
    IN  /\ cur.reg # "ok" => (mine = {} /\ cur.activations = 0)
        /\ pc = "register_failed" =>
              /\ cur.stored
              /\ dart_entrypoint_arguments # 0
              /\ Deref(dart_entrypoint_arguments) = Tail(argv)
        /\ (cur.handled /\ cur.reg = "ok") =>
              (Cardinality(mine) = 1 /\ cur.activations = 1)
        /\ Cardinality(mine) <= 1
        /\ cur.activations <= 1

C8_Witness ==
    /\ cur.handled
    /\ cur.reg = "failed"
    /\ windows = <<>>
    /\ dart_entrypoint_arguments # 0

\* C9: in every state of an activation, a realized view has already been
\* added to the window and has the first-frame handler connected, and plugins
\* are registered only on a realized view.
C9_ViewStepOrder ==
    \A w \in Windows :
        /\ w.realized => (w.added /\ w.connected)
        /\ w.plugins => w.realized

C9_Witness ==
    /\ pc = "plugins"
    /\ windows[Last].added
    /\ windows[Last].connected
    /\ windows[Last].realized
    /\ ~windows[Last].plugins

\* C10: with the executable's path unresolved no icon path is tested or
\* loaded, no icon is set and no warning logged, and the activation still
\* completes; the development-tree path is never tested for existence, and the
\* warning names it exactly when the bundled path does not exist and the
\* development-tree file fails to load.
C10_UnresolvedExeSkipsIcon ==
    /\ \A w \in Windows :
          /\ w.exe_resolved = "no" =>
                (w.tested = {} /\ w.loads = <<>> /\ w.load_ok = "none"
                    /\ w.icon = NULL /\ w.warning = NULL)
          /\ ExpectedDevPath \notin w.tested
          /\ w.load_ok # "none" =>
                (w.warning = ExpectedDevPath
                    <=> (w.bundled_exists = "no" /\ w.load_ok = "no"))
    /\ \A w \in FinishedWindows :
          w.exe_resolved = "no" => (w.has_view /\ w.plugins /\ w.focused)

C10_Witness ==
    \E w1, w2 \in FinishedWindows :
        /\ w1.exe_resolved = "no" /\ w1.plugins /\ w1.icon = NULL
        /\ w2.bundled_exists = "no" /\ w2.warning = ExpectedDevPath

====
